---- MODULE Spec2Model ----
(***************************************************************************)
(* The dubbing pipeline of ai_dub: main() calls process_video(), which     *)
(* runs six stages in sequence (download, extract audio, transcribe,       *)
(* translate, synthesize, merge).  Every stage hands a file path to the    *)
(* next one, or None on failure.  All runs share one outputs directory     *)
(* with six fixed file names (config/settings.py).                         *)
(*                                                                         *)
(* External tools and libraries (pytube, yt-dlp, ffmpeg, whisper, the      *)
(* translator, the TTS engines, moviepy) are the environment: each call    *)
(* draws an outcome from a small set, and the adapter code around the call *)
(* is modelled as written.                                                 *)
(***************************************************************************)
EXTENDS Integers, Sequences, FiniteSets, TLC

VARIABLES
    pc,        \* position of main/process_video
    caller,    \* "main" (src/main.py main) or "api" (process_video called directly)
    cfg,       \* arguments of the current process_video call
    disk,      \* the outputs directory: file name -> file
    locals,    \* process_video's local path variables
    started,   \* stages whose header was printed in this call, in order
    trace,     \* engine attempts of this call, in order
    returns,   \* what each stage call gave back to process_video, in order
    log,       \* fallback/error records written by this call, in order
    ret,       \* return value of process_video
    failure,   \* how the call failed, as far as process_video knows
    exitCode,  \* return value of main
    inflight,  \* engines whose child process was started and not yet waited for
    child      \* the yt-dlp child and its two pipes, where they are followed

vars == <<pc, caller, cfg, disk, locals, started, trace, returns, log, ret, failure,
          exitCode, inflight, child>>

None == "None"

-----------------------------------------------------------------------------
(* config/settings.py *)

TEMP_VIDEO_PATH == "temp_video.mp4"
TEMP_AUDIO_PATH == "temp_audio.wav"
TEMP_TRANSCRIPT_PATH == "transcript.txt"
TEMP_TRANSLATED_PATH == "translated.txt"
TEMP_DUBBED_AUDIO_PATH == "dubbed_audio.wav"
OUTPUT_VIDEO_PATH == "dubbed_video.mp4"
\* OUTPUTS_DIR and LOGS_DIR (lines 11-12)
OUTPUTS_DIR == "outputs"
LOGS_DIR == "logs"

\* Variant: settings.py does not create its directories.
settings_makedirs_none == {}

\* `os.makedirs(OUTPUTS_DIR, exist_ok=True)` and `os.makedirs(LOGS_DIR,
\* exist_ok=True)` (lines 16-17), run when config.settings is imported, which
\* main.py and every module of utils do before anything else.
settings_makedirs == {OUTPUTS_DIR, LOGS_DIR}

\* os.path.dirname of a path of the pipeline: each is
\* os.path.join(OUTPUTS_DIR, <file name>) (lines 20-25).
dirname(p) == OUTPUTS_DIR

TRANSLATION_ENGINE == "google"

Paths == {TEMP_VIDEO_PATH, TEMP_AUDIO_PATH, TEMP_TRANSCRIPT_PATH,
          TEMP_TRANSLATED_PATH, TEMP_DUBBED_AUDIO_PATH, OUTPUT_VIDEO_PATH}

\* The six stages of process_video, in the order of its code.
Stages == <<"Acquire", "Extract", "Transcribe", "Translate", "Synthesize", "Mux">>

\* The file each stage writes.
StagePath(s) ==
    CASE s = "Acquire"    -> TEMP_VIDEO_PATH
      [] s = "Extract"    -> TEMP_AUDIO_PATH
      [] s = "Transcribe" -> TEMP_TRANSCRIPT_PATH
      [] s = "Translate"  -> TEMP_TRANSLATED_PATH
      [] s = "Synthesize" -> TEMP_DUBBED_AUDIO_PATH
      [] s = "Mux"        -> OUTPUT_VIDEO_PATH

StageIndex(s) == CHOOSE i \in 1..Len(Stages) : Stages[i] = s

\* --tts choices of main.py
TtsEngines == {"gtts", "bark", "coqui", "voice_clone"}

\* reference_audio: None, a path to no file, a path to an existing file
RefAudio == {None, "ref_missing.wav", "ref_present.wav"}

-----------------------------------------------------------------------------
(* Language codes.  A code is a string, modelled as the sequence of its     *)
(* characters, so that str.lower() and language[:2] are computed.          *)

TARGET_LANGUAGE == <<"t", "r">>

Lowercase == <<"a", "b", "c", "d", "e", "f", "g", "h", "i", "j", "k", "l", "m",
               "n", "o", "p", "q", "r", "s", "t", "u", "v", "w", "x", "y", "z">>

Uppercase == <<"A", "B", "C", "D", "E", "F", "G", "H", "I", "J", "K", "L", "M",
               "N", "O", "P", "Q", "R", "S", "T", "U", "V", "W", "X", "Y", "Z">>

\* Variant: the code is upper-cased before the lookup.
upper(code) ==
    [i \in DOMAIN code |->
       IF \E j \in DOMAIN Lowercase : Lowercase[j] = code[i]
       THEN Uppercase[CHOOSE j \in DOMAIN Lowercase : Lowercase[j] = code[i]]
       ELSE code[i]]

\* target_lang.lower()
lower(code) ==
    [i \in DOMAIN code |->
       IF \E j \in DOMAIN Uppercase : Uppercase[j] = code[i]
       THEN Lowercase[CHOOSE j \in DOMAIN Uppercase : Uppercase[j] = code[i]]
       ELSE code[i]]

\* language[:2]
FirstTwo(code) == IF Len(code) <= 2 THEN code ELSE SubSeq(code, 1, 2)

LANG_EN == <<"e", "n">>
LANG_ZH == <<"z", "h">>
LANG_FR == <<"f", "r">>
LANG_PT == <<"p", "t">>
LANG_ZH_CN_LOWER == <<"z", "h", "-", "c", "n">>
LANG_ZH_CN == <<"z", "h", "-", "C", "N">>
LANG_FR_FR == <<"f", "r", "-", "f", "r">>
LANG_PT_BR == <<"p", "t", "-", "b", "r">>

\* The sixteen keys of the lang_mapping tables of voice_cloner_fallback.py
FallbackKeys ==
    {LANG_EN, LANG_FR, <<"t", "r">>, <<"e", "s">>, <<"i", "t">>, <<"d", "e">>, LANG_PT,
     <<"p", "l">>, <<"r", "u">>, <<"n", "l">>, <<"c", "s">>, <<"a", "r">>, LANG_ZH,
     <<"j", "a">>, <<"k", "o">>, <<"h", "u">>}

\* lang_mapping of clone_voice_and_speak (XTTS)
xtts_lang_mapping ==
    [k \in FallbackKeys |-> IF k = LANG_ZH THEN LANG_ZH_CN_LOWER ELSE k]

\* lang_mapping of clone_voice_fallback (gTTS)
fallback_lang_mapping ==
    [k \in FallbackKeys |-> IF k = LANG_ZH THEN LANG_ZH_CN ELSE k]

\* The ten keys of lang_mapping in generate_speech_gtts
GttsKeys ==
    {LANG_EN, <<"t", "r">>, LANG_FR, <<"e", "s">>, <<"d", "e">>, <<"r", "u">>, LANG_ZH,
     <<"j", "a">>, <<"k", "o">>, <<"a", "r">>}

\* lang_mapping of generate_speech_gtts
gtts_lang_mapping ==
    [k \in GttsKeys |-> IF k = LANG_ZH THEN LANG_ZH_CN ELSE k]

\* lang_mapping of generate_speech_voice_clone (YourTTS): French and
\* Portuguese have their own codes, every other key is spoken as English.
yourtts_lang_mapping ==
    [k \in GttsKeys \cup {LANG_PT} |->
       CASE k = LANG_FR -> LANG_FR_FR
         [] k = LANG_PT -> LANG_PT_BR
         [] OTHER       -> LANG_EN]

\* `lang_mapping.get(target_lang.lower(), "en")`
get_lower(mapping, target_lang) ==
    IF lower(target_lang) \in DOMAIN mapping THEN mapping[lower(target_lang)] ELSE LANG_EN

\* `if language in lang_mapping: ... elif language[:2] in lang_mapping: ...
\* else: tts_lang = "en"` of tts.py
tts_lang(mapping, language) ==
    IF language \in DOMAIN mapping THEN mapping[language]
    ELSE IF FirstTwo(language) \in DOMAIN mapping THEN mapping[FirstTwo(language)]
    ELSE LANG_EN

\* The `else:` branch of that lookup: neither the code nor its first two
\* characters are a key.
tts_lang_defaulted(mapping, language) ==
    language \notin DOMAIN mapping /\ FirstTwo(language) \notin DOMAIN mapping

-----------------------------------------------------------------------------
(* The file system.  A file is absent, or has a kind (full, empty,         *)
(* partial, or stale for a leftover of an earlier call) and remembers      *)
(* which engine wrote it and whether that was in the current call (fresh). *)
(* media is what a media file holds, one record per container written into *)
(* the file, with the durations of its video and audio streams (0: no such *)
(* stream); it is empty for a file whose durations are not followed.       *)

NoFile == [kind |-> "absent", by |-> "nobody", fresh |-> FALSE, media |-> << >>]

File(kind, by) == [kind |-> kind, by |-> by, fresh |-> TRUE, media |-> << >>]

Write(d, p, kind, by) == [d EXCEPT ![p] = File(kind, by)]

\* os.path.exists
Exists(d, p) == p # None /\ d[p].kind # "absent"

\* os.path.exists(reference_audio)
RefExists(ref) == ref = "ref_present.wav"

\* What a call left behind is still there when the next call starts; the
\* model then only remembers that the file is a leftover (kind "stale").
Age(d) == [p \in Paths |-> IF d[p].kind = "absent" THEN NoFile
                           ELSE [kind |-> "stale", by |-> "earlier run", fresh |-> FALSE,
                                 media |-> d[p].media]]

\* `os.makedirs(os.path.dirname(output_path), exist_ok=True)` stands before
\* the write in every adapter but the XTTS branch of clone_voice_and_speak,
\* which goes from the language table straight to tts.tts_to_file.
makedirs_before_write(engine) == engine # "xtts"

\* An engine attempt: call is TRUE when the engine's tool, model or service
\* was really called, ret is what the adapter returned, wrote says the engine
\* wrote its complete output, mkdir that this write came after the adapter's
\* own os.makedirs, detail is the error the adapter logged.
Attempt(stage, engine, call, r, wrote, detail) ==
    [stage |-> stage, engine |-> engine, call |-> call, ret |-> r,
     wrote |-> wrote, mkdir |-> wrote /\ makedirs_before_write(engine),
     detail |-> detail, exit |-> "none", lang |-> << >>, table |-> "none"]

\* The exit code of a child process (result.returncode, return_code): there
\* is none when the binary could not be started.
ReturnCode(o) ==
    CASE o \in {"ok", "ok_nofile"}          -> "zero"
      [] o \in {"nonzero", "nonzero_partial"} -> "nonzero"
      [] OTHER                                -> "none"

\* Variant: the exit code of the child process is not looked at.
returncode_unchecked(code) == code # "none"

\* `if result.returncode != 0: ... return None` (and `if return_code != 0`):
\* the adapter goes on only after exit code 0.
returncode_ok(code) == code = "zero"

\* An attempt of an engine that runs an external tool as a child process.
ToolAttempt(stage, engine, r, wrote, detail, o) ==
    [Attempt(stage, engine, TRUE, r, wrote, detail) EXCEPT !.exit = ReturnCode(o)]

\* What an adapter call gives back to its caller.
Result(r, d, raised, ev, lg) ==
    [ret |-> r, disk |-> d, raised |-> raised, ev |-> ev, log |-> lg]

\* `logger.warning(f"Language {language} not found in mapping, defaulting to
\* English")` of tts.py
LangWarning == "W: Language not found in mapping, defaulting to English"

\* The adapter logged the warning before it went on to r.
WithWarning(r, warns) ==
    IF warns THEN [r EXCEPT !.log = <<LangWarning>> \o @] ELSE r

\* The engine calls of r were made with the language code taken from table.
WithLang(r, table, code) ==
    [r EXCEPT !.ev = [k \in DOMAIN r.ev |->
                        IF r.ev[k].call
                        THEN [r.ev[k] EXCEPT !.lang = code, !.table = table]
                        ELSE r.ev[k]]]

NoLocals == [video_path |-> None, audio_path |-> None, transcript_path |-> None,
             translated_path |-> None, dubbed_audio_path |-> None, output_path |-> None]

NoFailure == [stage |-> None, detail |-> None]

\* The arguments of process_video while no call is under way: its defaults.
NoCall == [target_lang |-> TARGET_LANGUAGE, tts_engine |-> "gtts", reference_audio |-> None]

\* The record the second engine of a stage logs when it is called:
\* `logger.info(f"Attempting to download with yt-dlp: {url}")` (downloader.py
\* 35) and `logger.info(f"Starting fallback TTS for language: ...")`
\* (voice_cloner_fallback.py 35).
FallbackRecord(engine) ==
    CASE engine = "yt-dlp" -> "I: Attempting to download with yt-dlp"
      [] engine = "gtts"   -> "I: Starting fallback TTS"

\* Variant: the second engine starts without a log record.
fallback_start_silent(engine) == << >>

fallback_start(engine) == <<FallbackRecord(engine)>>

\* No child process whose pipes are followed.
NoChild == [state |-> "none", todo |-> << >>, out |-> 0, err |-> 0, code |-> "none"]

\* subprocess.Popen gave a child process: the binary was found.
ChildStarts(o) == ReturnCode(o) # "none"

\* The adapter call r with outcome o gets as far as a running child process.
ReachesChild(r, o) == r.ev # << >> /\ ChildStarts(o)

\* Variant: the adapter returns without waiting for its child.
wait_skipped(children, engine) == children

\* process.communicate() / process.wait(): the call returns when the child
\* has exited, and the child is reaped.
wait(children, engine) == children \ {engine}

-----------------------------------------------------------------------------
(* utils/downloader.py *)

\* Outcomes of the pytube calls in the try body of download_youtube_video:
\* a PytubeError, any other exception (with or without a partly written
\* file), or a completed download.
PytubeOutcomes == {"ok", "pytube_error", "error", "error_partial"}

\* Outcomes of the yt-dlp child process: the binary is missing, it exits
\* non-zero (perhaps leaving a partial file), it exits 0 having written the
\* output, or it exits 0 without a file at output_path from this call.
ToolOutcomes == {"ok", "ok_nofile", "nonzero", "nonzero_partial", "not_found"}

\* The try body of download_youtube_video (pytube).  exc names the except
\* clause that caught the failure.
pytube_download(o, d, output_path) ==
    LET d2  == CASE o = "ok"            -> Write(d, output_path, "full", "pytube")
                 [] o = "error_partial" -> Write(d, output_path, "partial", "pytube")
                 [] OTHER               -> d
        exc == CASE o = "ok"           -> "no"
                 [] o = "pytube_error" -> "PytubeError"
                 [] OTHER              -> "Exception"
        r   == IF exc = "no" THEN output_path ELSE None
        det == IF exc = "no" THEN None ELSE "pytube: " \o exc
        lg  == CASE exc = "no"          -> << >>
                 [] exc = "PytubeError" -> <<"E: Error downloading YouTube video with pytube",
                                             "I: Trying alternative download method...">>
                 [] OTHER               -> <<"E: Unexpected error during download">>
    IN  [ret |-> r, disk |-> d2, exc |-> exc,
         ev |-> <<Attempt("Acquire", "pytube", TRUE, r, o = "ok", det)>>, log |-> lg]

\* Variant: the fallback is called whether or not pytube succeeded.
pytube_then_always_fallback(exc) == "yt-dlp"

\* After the try body: return the path, or call the yt-dlp fallback from
\* either except clause.
pytube_then(exc) == IF exc = "no" THEN "return" ELSE "yt-dlp"

\* Variant: the except clauses call the fallback and drop its result.
download_youtube_video_except_drops(y) == [y EXCEPT !.ret = None]

\* `return download_video_with_yt_dlp(...)` in both except clauses: the
\* fallback's result y is the result of download_youtube_video.
download_youtube_video_except(y) == y

download_video_with_yt_dlp(o, d, output_path) ==
    LET d2  == CASE o = "ok"              -> Write(d, output_path, "full", "yt-dlp")
                 [] o = "nonzero_partial" -> Write(d, output_path, "partial", "yt-dlp")
                 [] OTHER                 -> d
        \* return_code == 0 and os.path.getsize(output_path) does not raise
        good == returncode_ok(ReturnCode(o)) /\ Exists(d2, output_path)
        r    == IF good THEN output_path ELSE None
        det  == CASE good                                -> None
                  [] o = "not_found"                     -> "yt-dlp: not installed"
                  [] o \in {"nonzero", "nonzero_partial"} -> "yt-dlp: exit code"
                  [] OTHER                               -> "yt-dlp: exception"
        lg   == fallback_start("yt-dlp") \o
                (CASE good                                -> << >>
                   [] o = "not_found"                     -> <<"E: yt-dlp is not installed">>
                   [] o \in {"nonzero", "nonzero_partial"} -> <<"E: yt-dlp error">>
                   [] OTHER                               -> <<"E: Error using yt-dlp">>)
    IN  Result(r, d2, FALSE,
               <<ToolAttempt("Acquire", "yt-dlp", r, o = "ok", det, o)>>, lg)

-----------------------------------------------------------------------------
(* utils/audio_extractor.py *)

\* os.makedirs sits before the try block, so its failure escapes.
ExtractOutcomes == ToolOutcomes \cup {"makedirs_error"}

extract_audio(o, d, video_path, audio_path) ==
    IF ~Exists(d, video_path)
    THEN Result(None, d, FALSE, << >>, <<"E: Video file not found">>)
    ELSE IF o = "makedirs_error"
    THEN Result(None, d, TRUE, << >>, << >>)
    ELSE
    LET d2   == CASE o = "ok"              -> Write(d, audio_path, "full", "ffmpeg")
                  [] o = "nonzero_partial" -> Write(d, audio_path, "partial", "ffmpeg")
                  [] OTHER                 -> d
        good == returncode_ok(ReturnCode(o)) /\ Exists(d2, audio_path)
        r    == IF good THEN audio_path ELSE None
        det  == CASE good                                -> None
                  [] o = "not_found"                     -> "ffmpeg: not found"
                  [] o \in {"nonzero", "nonzero_partial"} -> "ffmpeg: exit code"
                  [] OTHER                               -> "ffmpeg: exception"
        lg   == CASE good                                -> << >>
                  [] o = "not_found"                     -> <<"E: ffmpeg not found">>
                  [] o \in {"nonzero", "nonzero_partial"} -> <<"E: Error extracting audio">>
                  [] OTHER                               -> <<"E: Unexpected error during audio extraction">>
    IN  Result(r, d2, FALSE,
               <<ToolAttempt("Extract", "ffmpeg", r, o = "ok", det, o)>>, lg)

-----------------------------------------------------------------------------
(* utils/transcriber.py *)

\* whisper fails, or returns a text (perhaps the empty text) that is written
\* to the transcript file; the write itself may fail after the file was opened.
TranscribeOutcomes == {"ok", "ok_empty", "error", "write_error"}

transcribe_audio(o, d, audio_path, output_path) ==
    IF ~Exists(d, audio_path)
    THEN Result(None, d, FALSE, << >>, <<"E: Audio file not found">>)
    ELSE
    LET d2  == CASE o = "ok"          -> Write(d, output_path, "full", "whisper")
                 [] o = "ok_empty"    -> Write(d, output_path, "empty", "whisper")
                 [] o = "write_error" -> Write(d, output_path, "partial", "whisper")
                 [] OTHER             -> d
        r   == IF o \in {"ok", "ok_empty"} THEN output_path ELSE None
        det == IF r # None THEN None ELSE "whisper: exception"
        lg  == IF r # None THEN << >> ELSE <<"E: Error during transcription">>
    IN  Result(r, d2, FALSE,
               <<Attempt("Transcribe", "whisper", TRUE, r, o = "ok", det)>>, lg)

-----------------------------------------------------------------------------
(* utils/translator.py *)

\* Reading the input fails; the translation service fails (the engine
\* function returns None); it returns a text, perhaps empty; the write fails.
TranslateOutcomes == {"ok", "ok_empty", "read_error", "engine_error", "write_error"}

translate_file(o, d, input_path, output_path, engine) ==
    IF ~Exists(d, input_path)
    THEN Result(None, d, FALSE, << >>, <<"E: Input file not found">>)
    ELSE IF o = "read_error"
    THEN Result(None, d, FALSE, << >>, <<"E: Error during translation">>)
    ELSE IF engine \notin {"google", "openai"}
    THEN Result(None, d, FALSE, << >>, <<"E: Unknown translation engine">>)
    ELSE
    LET d2  == CASE o = "ok"          -> Write(d, output_path, "full", engine)
                 [] o = "ok_empty"    -> Write(d, output_path, "empty", engine)
                 [] o = "write_error" -> Write(d, output_path, "partial", engine)
                 [] OTHER             -> d
        r   == IF o \in {"ok", "ok_empty"} THEN output_path ELSE None
        det == CASE r # None           -> None
                 [] o = "engine_error" -> engine \o ": exception"
                 [] OTHER              -> "translate_file: exception"
        lg  == CASE r # None           -> << >>
                 [] o = "engine_error" -> <<"E: Error translating", "E: Translation failed">>
                 [] OTHER              -> <<"E: Error during translation">>
    IN  Result(r, d2, FALSE,
               <<Attempt("Translate", engine, TRUE, r, o = "ok", det)>>, lg)

-----------------------------------------------------------------------------
(* utils/tts.py *)

\* A lazily imported library is missing; the engine raises, perhaps after
\* opening its output file; or it writes the audio.
LibOutcomes == {"ok", "import_error", "error", "error_partial"}

\* One engine adapter of tts.py: a try block around the engine, every
\* exception turned into None.  No adapter calls another engine.
generate_speech(name, o, d, output_path) ==
    LET d2  == CASE o = "ok"            -> Write(d, output_path, "full", name)
                 [] o = "error_partial" -> Write(d, output_path, "partial", name)
                 [] OTHER               -> d
        r   == IF o = "ok" THEN output_path ELSE None
        det == CASE o = "ok"           -> None
                 [] o = "import_error" -> name \o ": not installed"
                 [] OTHER              -> name \o ": exception"
        lg  == CASE o = "ok"           -> << >>
                 [] o = "import_error" -> <<"E: TTS engine not installed">>
                 [] OTHER              -> <<"E: Error generating speech">>
    IN  Result(r, d2, FALSE,
               <<Attempt("Synthesize", name, o # "import_error", r, o = "ok", det)>>, lg)

generate_speech_bark(o, d, output_path) == generate_speech("bark", o, d, output_path)

generate_speech_coqui(o, d, output_path) == generate_speech("coqui", o, d, output_path)

\* gTTS is imported at module level: there is no ImportError branch.
generate_speech_gtts(o, d, output_path, language) ==
    WithWarning(
        WithLang(generate_speech("gtts", IF o = "import_error" THEN "error" ELSE o, d, output_path),
                 "gtts", tts_lang(gtts_lang_mapping, language)),
        tts_lang_defaulted(gtts_lang_mapping, language))

generate_speech_voice_clone(o, d, output_path, reference_audio_path, language) ==
    IF o # "import_error" /\ ~RefExists(reference_audio_path)
    THEN Result(None, d, FALSE, << >>, <<"E: Reference audio file not found">>)
    ELSE WithWarning(
             WithLang(generate_speech("yourtts", o, d, output_path),
                      "yourtts", tts_lang(yourtts_lang_mapping, language)),
             o # "import_error" /\ tts_lang_defaulted(yourtts_lang_mapping, language))

text_to_speech(o, d, input_path, output_path, language, engine, reference_audio) ==
    IF ~Exists(d, input_path)
    THEN Result(None, d, FALSE, << >>, <<"E: Input file not found">>)
    ELSE IF o = "read_error"
    THEN Result(None, d, FALSE, << >>, <<"E: Error during text-to-speech conversion">>)
    ELSE CASE engine = "bark"  -> generate_speech_bark(o, d, output_path)
           [] engine = "coqui" -> generate_speech_coqui(o, d, output_path)
           [] engine = "gtts"  -> generate_speech_gtts(o, d, output_path, language)
           [] engine = "voice_clone" ->
                IF reference_audio # None /\ RefExists(reference_audio)
                THEN generate_speech_voice_clone(o, d, output_path, reference_audio, language)
                ELSE LET g == generate_speech_gtts(o, d, output_path, language)
                     IN  [g EXCEPT !.log = <<"E: Voice cloning requires a valid reference audio file. Falling back to Google TTS.">> \o @]
           [] OTHER ->
                LET g == generate_speech_gtts(o, d, output_path, language)
                IN  [g EXCEPT !.log = <<"E: Unknown TTS engine", "I: Falling back to Google TTS">> \o @]

-----------------------------------------------------------------------------
(* utils/voice_cloner_fallback.py *)

\* Variant: the existence of the reference file is not checked.
speaker_wav_given(speaker_wav_path) == speaker_wav_path # None

\* `if speaker_wav_path and os.path.exists(speaker_wav_path):` (line 129)
speaker_wav_valid(speaker_wav_path) ==
    speaker_wav_path # None /\ RefExists(speaker_wav_path)

\* clone_voice_and_speak up to its last line: the XTTS attempt.  next says
\* whether the function returns here or goes on to clone_voice_fallback.
xtts_attempt(o, d, speaker_wav_path, target_lang, output_path) ==
    IF o = "import_error"
    THEN \* from TTS.api import TTS raised: the outer except
         [ret |-> None, disk |-> d, next |-> "gtts",
          ev |-> <<Attempt("Synthesize", "xtts", FALSE, None, FALSE, "xtts: not installed")>>,
          log |-> <<"W: Could not initialize TTS model", "I: Falling back to gTTS...">>]
    ELSE IF speaker_wav_valid(speaker_wav_path)
    THEN IF o = "ok"
         THEN [ret |-> output_path, disk |-> Write(d, output_path, "full", "xtts"),
               next |-> "return",
               ev |-> <<[Attempt("Synthesize", "xtts", TRUE, output_path, TRUE, None)
                          EXCEPT !.lang = get_lower(xtts_lang_mapping, target_lang),
                                 !.table = "xtts"]>>,
               log |-> << >>]
         ELSE [ret |-> None,
               disk |-> IF o = "error_partial"
                        THEN Write(d, output_path, "partial", "xtts") ELSE d,
               next |-> "gtts",
               ev |-> <<[Attempt("Synthesize", "xtts", TRUE, None, FALSE, "xtts: exception")
                          EXCEPT !.lang = get_lower(xtts_lang_mapping, target_lang),
                                 !.table = "xtts"]>>,
               log |-> <<"W: XTTS voice cloning failed", "I: Falling back to gTTS...">>]
    ELSE \* no usable reference audio: the XTTS block is skipped silently
         [ret |-> None, disk |-> d, next |-> "gtts", ev |-> << >>, log |-> << >>]

\* os.makedirs sits before the try block, so its failure escapes.
FallbackOutcomes == {"ok", "error", "error_partial", "makedirs_error"}

clone_voice_fallback(o, d, target_lang, output_path) ==
    IF o = "makedirs_error"
    THEN Result(None, d, TRUE, << >>, fallback_start("gtts"))
    ELSE
    LET d2  == CASE o = "ok"            -> Write(d, output_path, "full", "gtts")
                 [] o = "error_partial" -> Write(d, output_path, "partial", "gtts")
                 [] OTHER               -> d
        r   == IF o = "ok" THEN output_path ELSE None
        det == IF o = "ok" THEN None ELSE "gtts: exception"
        lg  == fallback_start("gtts") \o
               (IF o = "ok" THEN << >> ELSE <<"E: Error in fallback speech generation">>)
    IN  Result(r, d2, FALSE,
               <<[Attempt("Synthesize", "gtts", TRUE, r, o = "ok", det)
                  EXCEPT !.lang = get_lower(fallback_lang_mapping, target_lang),
                         !.table = "gtts_fallback"]>>, lg)

-----------------------------------------------------------------------------
(* utils/video_merger.py *)

MergeOutcomes == ToolOutcomes \cup {"error"}

Min(a, b) == IF a <= b THEN a ELSE b

\* Variant: the ffmpeg command without -shortest.
ffmpeg_streams_without_shortest(v, a) == [video |-> v, audio |-> a]

\* `-map 0:v:0 -map 1:a:0 -c:v copy -c:a aac -shortest`: the video stream of
\* the first input (v long) and the audio stream of the second (a long), both
\* ended where the shorter of the two ends.
ffmpeg_streams(v, a) == [video |-> Min(v, a), audio |-> Min(v, a)]

\* `if audio_clip.duration > video_clip.duration: audio_clip =
\* audio_clip.subclip(0, video_clip.duration)`, then video_clip.set_audio:
\* the whole video, and the audio cut when it is the longer one.
moviepy_streams(v, a) == [video |-> v, audio |-> IF a > v THEN v ELSE a]

\* Variant: the output is opened for appending.
append(old, new) == old \o new

\* ffmpeg's `-y` and write_videofile: an existing output file is replaced.
overwrite(old, new) == new

\* The merged file at output_path, made of the video stream of video_path and
\* the audio stream of audio_path (nothing is said of the streams when the
\* durations of the inputs are not followed).
Merged(d, video_path, audio_path, output_path, by) ==
    LET vm == d[video_path].media
        am == d[audio_path].media
        new == IF vm = << >> \/ am = << >> THEN << >>
               ELSE IF by = "ffmpeg"
               THEN <<ffmpeg_streams(vm[1].video, am[1].audio)>>
               ELSE <<moviepy_streams(vm[1].video, am[1].audio)>>
    IN  [d EXCEPT ![output_path] =
            [File("full", by) EXCEPT !.media = overwrite(d[output_path].media, new)]]

\* Every failure of the ffmpeg merge is caught here and returned as None.
merge_video_audio_ffmpeg(o, d, video_path, audio_path, output_path) ==
    IF ~Exists(d, video_path) \/ ~Exists(d, audio_path)
    THEN Result(None, d, FALSE, << >>, <<"E: input file not found">>)
    ELSE
    LET d2   == CASE o = "ok"              -> Merged(d, video_path, audio_path, output_path,
                                                     "ffmpeg")
                  [] o = "nonzero_partial" -> Write(d, output_path, "partial", "ffmpeg")
                  [] OTHER                 -> d
        good == returncode_ok(ReturnCode(o)) /\ Exists(d2, output_path)
        r    == IF good THEN output_path ELSE None
        det  == CASE good                                -> None
                  [] o = "not_found"                     -> "ffmpeg: not found"
                  [] o \in {"nonzero", "nonzero_partial"} -> "ffmpeg: exit code"
                  [] OTHER                               -> "ffmpeg: exception"
        lg   == CASE good                                -> << >>
                  [] o = "not_found"                     -> <<"E: ffmpeg not found">>
                  [] o \in {"nonzero", "nonzero_partial"} -> <<"E: Error merging video and audio">>
                  [] OTHER                               -> <<"E: Unexpected error during video/audio merging">>
    IN  Result(r, d2, FALSE,
               <<ToolAttempt("Mux", "ffmpeg", r, o = "ok", det, o)>>, lg)

MoviepyOutcomes == {"ok", "error", "error_partial"}

merge_video_audio_moviepy(o, d, video_path, audio_path, output_path) ==
    IF ~Exists(d, video_path) \/ ~Exists(d, audio_path)
    THEN Result(None, d, FALSE, << >>, <<"E: input file not found">>)
    ELSE
    LET d2  == CASE o = "ok"            -> Merged(d, video_path, audio_path, output_path,
                                                  "moviepy")
                 [] o = "error_partial" -> Write(d, output_path, "partial", "moviepy")
                 [] OTHER               -> d
        r   == IF o = "ok" THEN output_path ELSE None
        det == IF o = "ok" THEN None ELSE "moviepy: exception"
        lg  == IF o = "ok" THEN << >> ELSE <<"E: Error merging video and audio with moviepy">>
    IN  Result(r, d2, FALSE,
               <<Attempt("Mux", "moviepy", TRUE, r, o = "ok", det)>>, lg)

\* The except clause that calls moviepy runs only when the ffmpeg adapter
\* raises.
merge_video_audio(o, om, d, video_path, audio_path, output_path, use_ffmpeg) ==
    IF use_ffmpeg
    THEN LET f == merge_video_audio_ffmpeg(o, d, video_path, audio_path, output_path)
         IN  IF f.raised
             THEN LET m == merge_video_audio_moviepy(om, f.disk, video_path, audio_path, output_path)
                  IN  Result(m.ret, m.disk, m.raised, f.ev \o m.ev,
                             f.log \o <<"W: ffmpeg merging failed. Falling back to moviepy.">> \o m.log)
             ELSE f
    ELSE merge_video_audio_moviepy(om, d, video_path, audio_path, output_path)

-----------------------------------------------------------------------------
(* main.py: process_video and main *)

\* Variant: a None result is not noticed.
falsy_never(x) == FALSE

\* `if not video_path:` and its five siblings
falsy(x) == x = None

\* `if tts_engine == "voice_clone" and reference_audio:` (line 196)
use_clone_voice_and_speak(tts_engine, reference_audio) ==
    tts_engine = "voice_clone" /\ ~falsy(reference_audio)

\* The local variable a stage's result is bound to.
LocalOf(stage) ==
    CASE stage = "Acquire"    -> "video_path"
      [] stage = "Extract"    -> "audio_path"
      [] stage = "Transcribe" -> "transcript_path"
      [] stage = "Translate"  -> "translated_path"
      [] stage = "Synthesize" -> "dubbed_audio_path"
      [] stage = "Mux"        -> "output_path"

\* Variant: the transcription step is left out.
StageAfter_skips_transcribe(stage) ==
    CASE stage = "Acquire"    -> "Extract"
      [] stage = "Extract"    -> "Translate"
      [] stage = "Transcribe" -> "Translate"
      [] stage = "Translate"  -> "Synthesize"
      [] stage = "Synthesize" -> "Mux"

\* The stage whose code follows a stage's success check.
StageAfter(stage) ==
    CASE stage = "Acquire"    -> "Extract"
      [] stage = "Extract"    -> "Transcribe"
      [] stage = "Transcribe" -> "Translate"
      [] stage = "Translate"  -> "Synthesize"
      [] stage = "Synthesize" -> "Mux"

PcOf(stage) ==
    CASE stage = "Acquire"    -> "acquire"
      [] stage = "Extract"    -> "extract"
      [] stage = "Transcribe" -> "transcribe"
      [] stage = "Translate"  -> "translate"
      [] stage = "Synthesize" -> "synthesize"
      [] stage = "Mux"        -> "mux"

\* logger.error before each `return None`
FailMessage(stage) ==
    CASE stage = "Acquire"    -> "E: Failed to download video. Exiting."
      [] stage = "Extract"    -> "E: Failed to extract audio. Exiting."
      [] stage = "Transcribe" -> "E: Failed to transcribe audio. Exiting."
      [] stage = "Translate"  -> "E: Failed to translate text. Exiting."
      [] stage = "Synthesize" -> "E: Failed to generate speech. Exiting."
      [] stage = "Mux"        -> "E: Failed to merge video and audio. Exiting."

\* `with open(transcript_path) ...` (149) and `with open(translated_path) ...`
\* (176): process_video reads the text file a stage has just returned.
ReadsBack(stage) == stage \in {"Transcribe", "Translate"}

\* What a stage or a file read can raise inside process_video: the
\* exceptions of the libraries and of the file system.
Raisable == {"OSError", "RuntimeError"}

\* Variant: process_video has no handler around its body.
no_except(exc) == FALSE

\* `except Exception as e:` (266) catches every subclass of Exception.
except_Exception(exc) == exc \in Raisable

\* An exception raised in the body of process_video (try at 77): the handler
\* at 266-269 logs it and returns None.
Unexpected(lg) ==
    \E exc \in Raisable :
      IF except_Exception(exc)
      THEN /\ ret' = None
           /\ failure' = [stage |-> None, detail |-> "unexpected error"]
           /\ pc' = "returned"
           /\ log' = log \o lg \o <<"E: Unexpected error during dubbing process">>
      ELSE /\ pc' = "raised"
           /\ log' = log \o lg
           /\ UNCHANGED <<ret, failure>>

\* Variant: the merge is given the extracted audio instead of the dubbed one.
Args_merge_original_audio(stage) ==
    CASE stage = "Acquire"    -> << >>
      [] stage = "Extract"    -> <<locals.video_path>>
      [] stage = "Transcribe" -> <<locals.audio_path>>
      [] stage = "Translate"  -> <<locals.transcript_path>>
      [] stage = "Synthesize" -> <<locals.translated_path>>
      [] stage = "Mux"        -> <<locals.video_path, locals.audio_path>>

\* The paths process_video passes to each stage call as its input files
\* (for stage 5 the file whose text it reads or passes on).
Args(stage) ==
    CASE stage = "Acquire"    -> << >>
      [] stage = "Extract"    -> <<locals.video_path>>
      [] stage = "Transcribe" -> <<locals.audio_path>>
      [] stage = "Translate"  -> <<locals.transcript_path>>
      [] stage = "Synthesize" -> <<locals.translated_path>>
      [] stage = "Mux"        -> <<locals.video_path, locals.dubbed_audio_path>>

\* The code of process_video that follows the call of a stage, up to the call
\* of the next stage: r is what the stage gave back, rd the outcome of the
\* read-back.
StageReturn(stage, r, rd) ==
    /\ disk' = r.disk
    /\ trace' = trace \o r.ev
    /\ returns' = Append(returns, [stage |-> stage, ret |-> r.ret, raised |-> r.raised,
                                   args |-> Args(stage)])
    /\ IF r.raised
       THEN /\ Unexpected(r.log)
            /\ UNCHANGED <<locals, started>>
       ELSE IF falsy(r.ret)
       THEN /\ ret' = None
            /\ failure' = [stage |-> stage, detail |-> None]
            /\ pc' = "returned"
            /\ log' = log \o r.log \o <<FailMessage(stage)>>
            /\ UNCHANGED <<locals, started>>
       ELSE /\ locals' = [locals EXCEPT ![LocalOf(stage)] = r.ret]
            /\ IF ReadsBack(stage) /\ rd = "read_error"
               THEN /\ Unexpected(r.log)
                    /\ UNCHANGED started
               ELSE IF stage = "Mux"
               THEN /\ ret' = r.ret
                    /\ pc' = "returned"
                    /\ log' = log \o r.log \o <<"I: AI dubbing process completed successfully!">>
                    /\ UNCHANGED <<failure, started>>
               ELSE /\ pc' = PcOf(StageAfter(stage))
                    /\ started' = Append(started, StageAfter(stage))
                    /\ log' = log \o r.log
                    /\ UNCHANGED <<ret, failure>>
    /\ UNCHANGED <<caller, cfg, exitCode>>

ReadOutcomes == {"ok", "read_error"}

\* The adapter has started its child process and now waits for it: nothing
\* but the set of children and the position changes.
Waiting(at, engine) ==
    /\ pc' = at
    /\ inflight' = inflight \cup {engine}
    /\ UNCHANGED child
    /\ UNCHANGED <<caller, cfg, disk, locals, started, trace, returns, log, ret, failure,
                   exitCode>>

\* process_video lines 77-98: a new call starts with stage 1's header.
Enter(who, target_lang, tts_engine, reference_audio) ==
    /\ caller' = who
    /\ cfg' = [target_lang |-> target_lang, tts_engine |-> tts_engine,
               reference_audio |-> reference_audio]
    /\ started' = <<"Acquire">>
    /\ pc' = "acquire"
    /\ UNCHANGED <<disk, locals, trace, returns, log, ret, failure, exitCode, inflight, child>>

\* main lines 350-385: the reference audio main passes on.  --record replaces
\* it by the recording; without --record and without --reference-audio main
\* prompts until the path of an existing file is entered; a path given on
\* the command line is passed on unchecked.
RecordOutcomes == {"no", "recorded", "failed"}

main_reference_audio(tts_engine, arg, rec) ==
    IF tts_engine = "voice_clone"
    THEN IF rec = "recorded" THEN "ref_present.wav"
         ELSE IF rec = "failed" THEN "exit 1"
         ELSE IF falsy(arg) THEN "ref_present.wav"
         ELSE arg
    ELSE arg

\* The target languages entered at main's prompt or given with --target.
MainLangs == {TARGET_LANGUAGE, LANG_ZH}

\* main up to its call of process_video.  --reference-audio is only read
\* when the engine is voice_clone, so it is only enumerated there.
MainStart ==
    /\ pc = "idle"
    /\ \E target_lang \in MainLangs, tts_engine \in TtsEngines, rec \in RecordOutcomes :
       \E arg \in (IF tts_engine = "voice_clone" THEN RefAudio ELSE {None}) :
         LET ref == main_reference_audio(tts_engine, arg, rec)
         IN  IF ref = "exit 1"
             THEN /\ pc' = "exited"
                  /\ exitCode' = 1
                  /\ caller' = "main"
                  /\ cfg' = [target_lang |-> target_lang, tts_engine |-> tts_engine,
                             reference_audio |-> None]
                  /\ UNCHANGED <<disk, locals, started, trace, returns, log, ret, failure,
                                 inflight, child>>
             ELSE Enter("main", target_lang, tts_engine, ref)

\* process_video called by other code with its defaults: tts_engine is the
\* TTS_ENGINE setting (any of its four options), reference_audio is None.
ApiStart ==
    /\ pc = "idle"
    /\ \E tts_engine \in TtsEngines :
         Enter("api", TARGET_LANGUAGE, tts_engine, None)

\* Step 1, first engine: download_youtube_video's try body
DownloadPytube ==
    /\ pc = "acquire"
    /\ UNCHANGED <<inflight, child>>
    /\ \E o \in PytubeOutcomes :
         LET p == pytube_download(o, disk, TEMP_VIDEO_PATH)
         IN  IF pytube_then(p.exc) = "return"
             THEN StageReturn("Acquire", Result(p.ret, p.disk, FALSE, p.ev, p.log), "ok")
             ELSE /\ pc' = "acquire_ytdlp"
                  /\ disk' = p.disk
                  /\ trace' = trace \o p.ev
                  /\ log' = log \o p.log
                  /\ UNCHANGED <<caller, cfg, locals, started, returns, ret, failure, exitCode>>

\* Step 1, second engine: the except clauses call download_video_with_yt_dlp,
\* which starts yt-dlp with subprocess.Popen (or finds no yt-dlp to start).
DownloadYtDlp ==
    /\ pc = "acquire_ytdlp"
    /\ \E o \in ToolOutcomes :
         LET y == download_video_with_yt_dlp(o, disk, TEMP_VIDEO_PATH)
         IN  IF ReachesChild(y, o)
             THEN Waiting("acquire_ytdlp_wait", "yt-dlp")
             ELSE /\ StageReturn("Acquire", download_youtube_video_except(y), "ok")
                  /\ UNCHANGED <<inflight, child>>

\* download_video_with_yt_dlp from its poll loop on: the child exits,
\* process.wait() gives its exit code, and the result goes back through
\* download_youtube_video to process_video.  (The loop itself, with the two
\* pipes of the child, is followed step by step in SpecYtDlp.)
DownloadYtDlpWait ==
    /\ pc = "acquire_ytdlp_wait"
    /\ inflight' = wait(inflight, "yt-dlp")
    /\ UNCHANGED child
    /\ \E o \in {x \in ToolOutcomes : ChildStarts(x)} :
         StageReturn("Acquire",
                     download_youtube_video_except(
                         download_video_with_yt_dlp(o, disk, TEMP_VIDEO_PATH)), "ok")

\* Step 2: extract_audio up to subprocess.Popen
ExtractAudio ==
    /\ pc = "extract"
    /\ \E o \in ExtractOutcomes :
         LET r == extract_audio(o, disk, Args("Extract")[1], TEMP_AUDIO_PATH)
         IN  IF ReachesChild(r, o)
             THEN Waiting("extract_wait", "ffmpeg")
             ELSE /\ StageReturn("Extract", r, "ok")
                  /\ UNCHANGED <<inflight, child>>

\* Step 2: process.communicate() and the rest of extract_audio
ExtractAudioWait ==
    /\ pc = "extract_wait"
    /\ inflight' = wait(inflight, "ffmpeg")
    /\ UNCHANGED child
    /\ \E o \in {x \in ExtractOutcomes : ChildStarts(x)} :
         StageReturn("Extract", extract_audio(o, disk, Args("Extract")[1], TEMP_AUDIO_PATH), "ok")

\* Step 3
TranscribeAudio ==
    /\ pc = "transcribe"
    /\ UNCHANGED <<inflight, child>>
    /\ \E o \in TranscribeOutcomes, rd \in ReadOutcomes :
         StageReturn("Transcribe",
                     transcribe_audio(o, disk, Args("Transcribe")[1], TEMP_TRANSCRIPT_PATH), rd)

\* Step 4
TranslateFile ==
    /\ pc = "translate"
    /\ UNCHANGED <<inflight, child>>
    /\ \E o \in TranslateOutcomes, rd \in ReadOutcomes :
         StageReturn("Translate",
                     translate_file(o, disk, Args("Translate")[1], TEMP_TRANSLATED_PATH,
                                    TRANSLATION_ENGINE), rd)

\* Step 5, voice_clone with a reference audio: process_video reads the text
\* and calls clone_voice_and_speak, which tries XTTS first.
SynthesizeVoiceClone ==
    /\ pc = "synthesize"
    /\ use_clone_voice_and_speak(cfg.tts_engine, cfg.reference_audio)
    /\ UNCHANGED <<inflight, child>>
    /\ \E o \in LibOutcomes, rd \in ReadOutcomes :
         IF rd = "read_error"
         THEN \* open(translated_path) raised: no synthesizer was called
              /\ Unexpected(<< >>)
              /\ UNCHANGED <<caller, cfg, disk, locals, started, trace, returns, exitCode>>
         ELSE LET x == xtts_attempt(o, disk, cfg.reference_audio, cfg.target_lang,
                                        TEMP_DUBBED_AUDIO_PATH)
              IN  IF x.next = "return"
                  THEN StageReturn("Synthesize", Result(x.ret, x.disk, FALSE, x.ev, x.log), "ok")
                  ELSE /\ pc' = "synthesize_gtts"
                       /\ disk' = x.disk
                       /\ trace' = trace \o x.ev
                       /\ log' = log \o x.log
                       /\ UNCHANGED <<caller, cfg, locals, started, returns, ret, failure, exitCode>>

\* Step 5, the last line of clone_voice_and_speak: clone_voice_fallback (gTTS)
SynthesizeFallback ==
    /\ pc = "synthesize_gtts"
    /\ UNCHANGED <<inflight, child>>
    /\ \E o \in FallbackOutcomes :
         StageReturn("Synthesize", clone_voice_fallback(o, disk, cfg.target_lang, TEMP_DUBBED_AUDIO_PATH), "ok")

\* Step 5, every other case: text_to_speech
SynthesizeTextToSpeech ==
    /\ pc = "synthesize"
    /\ ~use_clone_voice_and_speak(cfg.tts_engine, cfg.reference_audio)
    /\ UNCHANGED <<inflight, child>>
    /\ \E o \in LibOutcomes \cup {"read_error"} :
         StageReturn("Synthesize",
                     text_to_speech(o, disk, Args("Synthesize")[1], TEMP_DUBBED_AUDIO_PATH,
                                    cfg.target_lang, cfg.tts_engine, cfg.reference_audio), "ok")

\* Step 6: merge_video_audio, and merge_video_audio_ffmpeg up to
\* subprocess.Popen
MergeVideoAudio ==
    /\ pc = "mux"
    /\ \E o \in MergeOutcomes, om \in MoviepyOutcomes :
         LET r == merge_video_audio(o, om, disk, Args("Mux")[1], Args("Mux")[2],
                                    OUTPUT_VIDEO_PATH, TRUE)
         IN  IF ReachesChild(r, o)
             THEN Waiting("mux_wait", "ffmpeg")
             ELSE /\ StageReturn("Mux", r, "ok")
                  /\ UNCHANGED <<inflight, child>>

\* Step 6: process.communicate() and the rest of the merge
MergeVideoAudioWait ==
    /\ pc = "mux_wait"
    /\ inflight' = wait(inflight, "ffmpeg")
    /\ UNCHANGED child
    /\ \E o \in {x \in MergeOutcomes : ChildStarts(x)}, om \in MoviepyOutcomes :
         StageReturn("Mux",
                     merge_video_audio(o, om, disk, Args("Mux")[1], Args("Mux")[2],
                                       OUTPUT_VIDEO_PATH, TRUE), "ok")

\* Variant: main reports success whatever process_video returned.
main_exit_always_zero(output_path, d) == 0

\* main lines 396-402
main_exit(output_path, d) == IF ~falsy(output_path) /\ Exists(d, output_path) THEN 0 ELSE 1

MainExit ==
    /\ pc = "returned"
    /\ caller = "main"
    /\ exitCode' = main_exit(ret, disk)
    /\ pc' = "exited"
    /\ UNCHANGED <<caller, cfg, disk, locals, started, trace, returns, log, ret, failure,
                   inflight, child>>

\* The process (or the caller of process_video) is done with the call: what
\* remains of it is the outputs directory.
ProcessEnd ==
    /\ pc = "exited" \/ (pc = "returned" /\ caller = "api")
    /\ pc' = "idle"
    /\ caller' = "main"
    /\ cfg' = NoCall
    /\ disk' = Age(disk)
    /\ locals' = NoLocals
    /\ started' = << >>
    /\ trace' = << >>
    /\ returns' = << >>
    /\ log' = << >>
    /\ ret' = None
    /\ failure' = NoFailure
    /\ exitCode' = None
    /\ inflight' = {}
    /\ child' = NoChild

Init ==
    /\ pc = "idle"
    /\ caller = "main"
    /\ cfg = NoCall
    /\ disk = [p \in Paths |-> NoFile]
    /\ locals = NoLocals
    /\ started = << >>
    /\ trace = << >>
    /\ returns = << >>
    /\ log = << >>
    /\ ret = None
    /\ failure = NoFailure
    /\ exitCode = None
    /\ inflight = {}
    /\ child = NoChild

Next ==
    \/ MainStart
    \/ ApiStart
    \/ DownloadPytube
    \/ DownloadYtDlp
    \/ DownloadYtDlpWait
    \/ ExtractAudio
    \/ ExtractAudioWait
    \/ TranscribeAudio
    \/ TranslateFile
    \/ SynthesizeVoiceClone
    \/ SynthesizeFallback
    \/ SynthesizeTextToSpeech
    \/ MergeVideoAudio
    \/ MergeVideoAudioWait
    \/ MainExit
    \/ ProcessEnd

Spec == Init /\ [][Next]_vars

-----------------------------------------------------------------------------
(* The four synthesizer variants that map the language code, each called   *)
(* on its own with a target language drawn from LangInputs, as the test    *)
(* scripts and the `__main__` blocks of the modules call them.             *)

MaxLangLen == 2

LangAlphabet == {"z", "h", "Z", "H", "x", "-"}

\* Every string over LangAlphabet of at most MaxLangLen characters, the keys
\* of the tables, and some longer codes.
LangInputs ==
    UNION {[1..m -> LangAlphabet] : m \in 0..MaxLangLen}
      \cup FallbackKeys
      \cup {LANG_ZH_CN, LANG_ZH_CN_LOWER, LANG_PT_BR, LANG_FR_FR,
            <<"z", "h", "-", "T", "W">>, <<"Z", "H", "-", "t", "w">>,
            <<"f", "r", "-", "C", "A">>, <<"E", "N">>, <<"P", "t">>,
            <<"e", "n", "-", "U", "S">>, <<"h", "u", "-", "H", "U">>}

InitLang ==
    /\ pc = "speak"
    /\ caller = "api"
    /\ cfg \in {[target_lang |-> l, tts_engine |-> "voice_clone",
                 reference_audio |-> "ref_present.wav"] : l \in LangInputs}
    /\ disk = [p \in Paths |-> NoFile]
    /\ locals = NoLocals
    /\ started = << >>
    /\ trace = << >>
    /\ returns = << >>
    /\ log = << >>
    /\ ret = None
    /\ failure = NoFailure
    /\ exitCode = None
    /\ inflight = {}
    /\ child = NoChild

\* The variant has returned r.
Speak(r) ==
    /\ pc' = "spoken"
    /\ trace' = r.ev
    /\ disk' = r.disk
    /\ log' = r.log
    /\ ret' = r.ret
    /\ UNCHANGED <<caller, cfg, locals, started, returns, failure, exitCode, inflight, child>>

\* clone_voice_and_speak up to its last line (XTTS)
SpeakXtts ==
    /\ pc = "speak"
    /\ \E o \in LibOutcomes :
         LET x == xtts_attempt(o, disk, cfg.reference_audio, cfg.target_lang,
                               TEMP_DUBBED_AUDIO_PATH)
         IN  Speak(Result(x.ret, x.disk, FALSE, x.ev, x.log))

\* clone_voice_fallback (gTTS)
SpeakFallback ==
    /\ pc = "speak"
    /\ \E o \in FallbackOutcomes :
         Speak(clone_voice_fallback(o, disk, cfg.target_lang, TEMP_DUBBED_AUDIO_PATH))

\* generate_speech_gtts
SpeakGtts ==
    /\ pc = "speak"
    /\ \E o \in LibOutcomes :
         Speak(generate_speech_gtts(o, disk, TEMP_DUBBED_AUDIO_PATH, cfg.target_lang))

\* generate_speech_voice_clone (YourTTS)
SpeakYourTts ==
    /\ pc = "speak"
    /\ \E o \in LibOutcomes :
         Speak(generate_speech_voice_clone(o, disk, TEMP_DUBBED_AUDIO_PATH,
                                           cfg.reference_audio, cfg.target_lang))

\* The next call, with another target language and a clean output path.
SpeakAgain ==
    /\ pc = "spoken"
    /\ pc' = "speak"
    /\ \E l \in LangInputs : cfg' = [cfg EXCEPT !.target_lang = l]
    /\ trace' = << >>
    /\ disk' = [p \in Paths |-> NoFile]
    /\ log' = << >>
    /\ ret' = None
    /\ UNCHANGED <<caller, locals, started, returns, failure, exitCode, inflight, child>>

NextLang ==
    \/ SpeakXtts
    \/ SpeakFallback
    \/ SpeakGtts
    \/ SpeakYourTts
    \/ SpeakAgain

SpecLang == InitLang /\ [][NextLang]_vars

-----------------------------------------------------------------------------
(* merge_video_audio called on its own, again and again, on one video of   *)
(* VideoDuration and one dubbed audio of AudioDuration, with the output    *)
(* path of the pipeline.                                                   *)

MaxDuration == 3

MaxRuns == 2

\* A video file with its own sound track, v long.
VideoOf(v) == [File("full", "yt-dlp") EXCEPT !.media = <<[video |-> v, audio |-> v]>>]

\* An audio file a long.
AudioOf(a) == [File("full", "gtts") EXCEPT !.media = <<[video |-> 0, audio |-> a]>>]

InitMux ==
    /\ pc = "merge"
    /\ caller = "api"
    /\ cfg = NoCall
    /\ \E v \in 1..MaxDuration, a \in 1..MaxDuration :
         disk = [p \in Paths |->
                   CASE p = TEMP_VIDEO_PATH        -> VideoOf(v)
                     [] p = TEMP_DUBBED_AUDIO_PATH -> AudioOf(a)
                     [] OTHER                      -> NoFile]
    /\ locals = NoLocals
    /\ started = << >>
    /\ trace = << >>
    /\ returns = << >>
    /\ log = << >>
    /\ ret = None
    /\ failure = NoFailure
    /\ exitCode = None
    /\ inflight = {}
    /\ child = NoChild

\* merge_video_audio(TEMP_VIDEO_PATH, TEMP_DUBBED_AUDIO_PATH,
\* OUTPUT_VIDEO_PATH, use_ffmpeg) from call to return.
Mux(use_ffmpeg) ==
    /\ \E o \in MergeOutcomes, om \in MoviepyOutcomes :
         LET r == merge_video_audio(o, om, disk, TEMP_VIDEO_PATH, TEMP_DUBBED_AUDIO_PATH,
                                    OUTPUT_VIDEO_PATH, use_ffmpeg)
         IN  /\ disk' = r.disk
             /\ trace' = trace \o r.ev
             /\ log' = r.log
             /\ ret' = r.ret
    /\ pc' = "merged"
    /\ UNCHANGED <<caller, cfg, locals, started, returns, failure, exitCode, inflight, child>>

\* use_ffmpeg=True, the default
MuxFfmpeg ==
    /\ pc = "merge"
    /\ Mux(TRUE)

\* use_ffmpeg=False
MuxMoviepy ==
    /\ pc = "merge"
    /\ Mux(FALSE)

\* The caller merges the same pair once more.
MuxAgain ==
    /\ pc = "merged"
    /\ Len(trace) < MaxRuns
    /\ pc' = "merge"
    /\ UNCHANGED <<caller, cfg, disk, locals, started, trace, returns, log, ret, failure,
                   exitCode, inflight, child>>

NextMux ==
    \/ MuxFfmpeg
    \/ MuxMoviepy
    \/ MuxAgain

SpecMux == InitMux /\ [][NextMux]_vars

-----------------------------------------------------------------------------
(* download_video_with_yt_dlp step by step: the parent's poll loop and the  *)
(* yt-dlp child, joined by the two pipes of subprocess.Popen(stdout=PIPE,  *)
(* stderr=PIPE).  A pipe holds at most PipeCapacity writes; the child       *)
(* makes at most MaxWrites of them, to stdout or stderr in any order, and   *)
(* then exits.                                                              *)

PipeCapacity == 2

MaxWrites == 3

\* What the child writes, in order.
ChildWrites == UNION {[1..n -> {"out", "err"}] : n \in 0..MaxWrites}

InitYtDlp ==
    /\ pc = "ytdlp_popen"
    /\ caller = "api"
    /\ cfg = NoCall
    /\ disk = [p \in Paths |-> NoFile]
    /\ locals = NoLocals
    /\ started = << >>
    /\ trace = << >>
    /\ returns = << >>
    /\ log = << >>
    /\ ret = None
    /\ failure = NoFailure
    /\ exitCode = None
    /\ inflight = {}
    /\ child = NoChild

\* The function returns what download_video_with_yt_dlp gives for outcome o.
YtDlpReturn(o) ==
    LET y == download_video_with_yt_dlp(o, disk, TEMP_VIDEO_PATH)
    IN  /\ pc' = "ytdlp_done"
        /\ ret' = y.ret
        /\ disk' = y.disk
        /\ trace' = y.ev
        /\ log' = y.log

\* Lines 31-57: makedirs, the log record, the command, subprocess.Popen.
YtDlpPopen ==
    /\ pc = "ytdlp_popen"
    /\ \E o \in ToolOutcomes :
         IF ChildStarts(o)
         THEN /\ \E w \in ChildWrites :
                   child' = [state |-> "running", todo |-> w, out |-> 0, err |-> 0,
                             code |-> ReturnCode(o)]
              /\ inflight' = {"yt-dlp"}
              /\ pc' = "ytdlp_poll"
              /\ log' = fallback_start("yt-dlp")
              /\ UNCHANGED <<ret, disk, trace>>
         ELSE /\ YtDlpReturn(o)
              /\ UNCHANGED <<inflight, child>>
    /\ UNCHANGED <<caller, cfg, locals, started, returns, failure, exitCode>>

\* `while process.poll() is None:` (60): poll() reaps the child when it has
\* exited, and the loop ends.
YtDlpPoll ==
    /\ pc = "ytdlp_poll"
    /\ IF child.state = "running"
       THEN /\ pc' = "ytdlp_readline"
            /\ UNCHANGED child
       ELSE /\ pc' = "ytdlp_wait"
            /\ child' = [child EXCEPT !.state = "reaped"]
    /\ UNCHANGED <<caller, cfg, disk, locals, started, trace, returns, log, ret, failure,
                   exitCode, inflight>>

\* `line = process.stdout.readline().strip()` (61): returns when stdout holds
\* a line, or at end of file, which is when the child has exited; until then
\* the parent is blocked here.  stderr is not read in the loop.
YtDlpReadline ==
    /\ pc = "ytdlp_readline"
    /\ \/ /\ child.out > 0
          /\ child' = [child EXCEPT !.out = @ - 1]
       \/ /\ child.out = 0
          /\ child.state = "exited"
          /\ UNCHANGED child
    /\ pc' = "ytdlp_poll"
    /\ UNCHANGED <<caller, cfg, disk, locals, started, trace, returns, log, ret, failure,
                   exitCode, inflight>>

\* Lines 66-87: process.wait() gives the exit code; after a non-zero code
\* stderr is read and None returned, else the file is looked at.
YtDlpWait ==
    /\ pc = "ytdlp_wait"
    /\ \E o \in {x \in ToolOutcomes : ReturnCode(x) = child.code} : YtDlpReturn(o)
    /\ inflight' = wait(inflight, "yt-dlp")
    /\ child' = IF returncode_ok(child.code) THEN child ELSE [child EXCEPT !.err = 0]
    /\ UNCHANGED <<caller, cfg, locals, started, returns, failure, exitCode>>

\* The child writes its next line or message: into stdout or stderr, when
\* that pipe has room; it is blocked while the pipe is full.
ChildWrite ==
    /\ child.state = "running"
    /\ child.todo # << >>
    /\ \/ /\ Head(child.todo) = "out"
          /\ child.out < PipeCapacity
          /\ child' = [child EXCEPT !.out = @ + 1, !.todo = Tail(@)]
       \/ /\ Head(child.todo) = "err"
          /\ child.err < PipeCapacity
          /\ child' = [child EXCEPT !.err = @ + 1, !.todo = Tail(@)]
    /\ UNCHANGED <<pc, caller, cfg, disk, locals, started, trace, returns, log, ret, failure,
                   exitCode, inflight>>

\* The child has written everything and exits: its ends of the pipes close.
ChildExit ==
    /\ child.state = "running"
    /\ child.todo = << >>
    /\ child' = [child EXCEPT !.state = "exited"]
    /\ UNCHANGED <<pc, caller, cfg, disk, locals, started, trace, returns, log, ret, failure,
                   exitCode, inflight>>

YtDlpParent ==
    \/ YtDlpPopen
    \/ YtDlpPoll
    \/ YtDlpReadline
    \/ YtDlpWait

YtDlpChild ==
    \/ ChildWrite
    \/ ChildExit

NextYtDlp ==
    \/ YtDlpPopen
    \/ YtDlpPoll
    \/ YtDlpReadline
    \/ YtDlpWait
    \/ ChildWrite
    \/ ChildExit

\* Parent and child are two processes of the operating system: each runs
\* whenever it is not blocked.
SpecYtDlp ==
    /\ InitYtDlp
    /\ [][NextYtDlp]_vars
    /\ WF_vars(YtDlpParent)
    /\ WF_vars(YtDlpChild)

-----------------------------------------------------------------------------
(* Properties *)

Last(q) == q[Len(q)]

\* process_video has returned (and main, if it was the caller, may have exited).
Over == pc \in {"returned", "exited"} /\ started # << >>

\* A stage call gave back a failure: None, or an exception that escaped it.
Failed(r) == r.ret = None \/ r.raised

\* All six stages were called in order and each returned a path.
AllSucceeded ==
    /\ Len(returns) = Len(Stages)
    /\ \A i \in DOMAIN returns :
         returns[i].stage = Stages[i] /\ ~Failed(returns[i])

\* C1: the stages started in a call are a prefix of Acquire, Extract,
\* Transcribe, Translate, Synthesize, Mux; a stage starts only after the stage
\* before it returned a path; engine attempts follow the same order.
C1_StagesInOrder ==
    /\ Len(started) <= Len(Stages)
    /\ \A i \in DOMAIN started : started[i] = Stages[i]
    /\ \A i \in DOMAIN started :
         i > 1 => /\ i - 1 \in DOMAIN returns
                  /\ returns[i - 1].stage = Stages[i - 1]
                  /\ ~Failed(returns[i - 1])
                  /\ locals[LocalOf(Stages[i - 1])] = StagePath(Stages[i - 1])
    /\ \A i \in DOMAIN returns : returns[i].stage = Stages[i]
    /\ \A k \in DOMAIN trace :
         /\ StageIndex(trace[k].stage) \in DOMAIN started
         /\ \A j \in 1..(k - 1) : StageIndex(trace[j].stage) <= StageIndex(trace[k].stage)

C1_Witness == pc = "returned" /\ started = Stages /\ ret # None

\* C2: once a stage call has given back a failure, process_video has
\* returned None, that stage is the last one started, and no engine of a
\* later stage was attempted.
C2_FailureEndsRun ==
    \A i \in DOMAIN returns :
      Failed(returns[i]) =>
        /\ i = Len(returns)
        /\ pc \in {"returned", "exited"}
        /\ ret = None
        /\ failure # NoFailure
        /\ Last(started) = returns[i].stage
        /\ \A k \in DOMAIN trace :
             StageIndex(trace[k].stage) <= StageIndex(returns[i].stage)

C2_Witness ==
    /\ pc = "returned"
    /\ Len(returns) = 4
    /\ Failed(returns[4])
    /\ returns[4].stage = "Translate"

\* C3: process_video returns a path, and main exits with 0, only when all six
\* stages succeeded; after a failed stage the return value is None, main
\* exits with 1, and no complete final video has been written by this call.
C3_SuccessOnlyIfAllStages ==
    /\ ret # None => AllSucceeded /\ ret = OUTPUT_VIDEO_PATH
    /\ (pc = "exited" /\ exitCode = 0) => AllSucceeded /\ ret # None
    /\ (\E i \in DOMAIN returns : Failed(returns[i])) =>
         /\ ret = None
         /\ pc = "exited" => exitCode = 1
         /\ ~(disk[OUTPUT_VIDEO_PATH].fresh /\ disk[OUTPUT_VIDEO_PATH].kind = "full")

C3_Witness == pc = "exited" /\ exitCode = 0 /\ ret = OUTPUT_VIDEO_PATH

\* The candidate engines of a stage with a fallback chain, by priority.
Priority(engine) == IF engine \in {"yt-dlp", "gtts"} THEN 2 ELSE 1

\* The attempt is one of a second candidate: yt-dlp, or gTTS when
\* clone_voice_and_speak is the synthesizer.
SecondCandidate(e) ==
    \/ e.engine = "yt-dlp"
    \/ e.engine = "gtts" /\ use_clone_voice_and_speak(cfg.tts_engine, cfg.reference_audio)

\* Within a stage the attempts go by strictly rising priority (so each
\* engine is attempted at most once).
InPriorityOrder ==
    \A i, j \in DOMAIN trace :
      (i < j /\ trace[i].stage = trace[j].stage) =>
        Priority(trace[i].engine) < Priority(trace[j].engine)

\* Within a stage nothing is attempted after an attempt that returned a path.
StopsAtFirstSuccess ==
    \A i, j \in DOMAIN trace :
      (i < j /\ trace[i].stage = trace[j].stage) => trace[i].ret = None

\* The first candidate of attempt j's stage was attempted before it and failed.
EarlierFailed(j) ==
    \E i \in 1..(j - 1) :
      /\ trace[i].stage = trace[j].stage
      /\ Priority(trace[i].engine) = 1
      /\ trace[i].ret = None

FirstFailedSecondSucceeded(i, j) ==
    /\ i < j
    /\ trace[i].stage = trace[j].stage
    /\ Priority(trace[i].engine) = 1
    /\ trace[i].ret = None
    /\ SecondCandidate(trace[j])
    /\ trace[j].ret # None

C6_FfmpegFailureInvokesMoviepy ==
    \A i \in DOMAIN trace :
      (trace[i].stage = "Mux" /\ trace[i].engine = "ffmpeg" /\ trace[i].ret = None) =>
        \E j \in DOMAIN trace : j > i /\ trace[j].engine = "moviepy"

\* The baseline engines: yt-dlp for the Acquirer, gTTS for the Synthesizer.
Baseline == {"yt-dlp", "gtts"}

\* The stage call has given its result back to process_video.
Returned(stage) == \E n \in DOMAIN returns : returns[n].stage = stage

\* C7 as stated: in the Acquirer and the Synthesizer, when an engine other
\* than the baseline has failed and the stage has returned, the baseline
\* was attempted after it.
C7_BaselineAlwaysTried ==
    \A i \in DOMAIN trace :
      ( /\ trace[i].stage \in {"Acquire", "Synthesize"}
        /\ trace[i].engine \notin Baseline
        /\ trace[i].ret = None
        /\ Returned(trace[i].stage) ) =>
        \E j \in DOMAIN trace :
          j > i /\ trace[j].stage = trace[i].stage /\ trace[j].engine \in Baseline

\* C8: when no reference-audio file exists, no voice-cloning engine (XTTS,
\* YourTTS) is called; with voice_clone selected every engine call of the
\* Synthesizer is then a gTTS call, and a path it returns is gTTS's.
C8_NoCloningWithoutReference ==
    ~RefExists(cfg.reference_audio) =>
      /\ \A k \in DOMAIN trace :
           trace[k].call => trace[k].engine \notin {"xtts", "yourtts"}
      /\ cfg.tts_engine = "voice_clone" =>
           /\ \A k \in DOMAIN trace :
                (trace[k].stage = "Synthesize" /\ trace[k].call) => trace[k].engine = "gtts"
           /\ locals.dubbed_audio_path # None =>
                \E k \in DOMAIN trace : trace[k].engine = "gtts" /\ trace[k].ret # None

C8_Witness ==
    /\ cfg.tts_engine = "voice_clone"
    /\ cfg.reference_audio = "ref_missing.wav"
    /\ caller = "main"
    /\ locals.dubbed_audio_path # None
    /\ \E k \in DOMAIN trace : trace[k].engine = "gtts" /\ trace[k].call

\* The attempts of a stage, as indexes of trace.
AttemptsOf(stage) == {k \in DOMAIN trace : trace[k].stage = stage}

\* C9 as stated: when every candidate of a stage has failed, process_video's
\* failure names that stage and carries the error detail of the last
\* candidate attempted.
C9_LastCandidateDetailCarried ==
    \A n \in DOMAIN returns :
      ( /\ returns[n].ret = None
        /\ ~returns[n].raised
        /\ AttemptsOf(returns[n].stage) # {} ) =>
        LET last == CHOOSE k \in AttemptsOf(returns[n].stage) :
                      \A m \in AttemptsOf(returns[n].stage) : m <= k
        IN  /\ failure.stage = returns[n].stage
            /\ failure.detail = trace[last].detail

\* The stages after a given one.
LaterStages(stage) ==
    {Stages[i] : i \in {j \in DOMAIN Stages : j > StageIndex(stage)}}

\* C10 as stated: when a call has ended in failure at some stage, no file of
\* a later stage exists in the outputs directory.
C10_NoLaterArtifactAfterFailure ==
    (Over /\ ret = None) =>
      \A t \in LaterStages(Last(started)) : ~Exists(disk, StagePath(t))

\* The files a stage is given as input by process_video.
InputPaths(stage) ==
    CASE stage = "Acquire"    -> {}
      [] stage = "Extract"    -> {TEMP_VIDEO_PATH}
      [] stage = "Transcribe" -> {TEMP_AUDIO_PATH}
      [] stage = "Translate"  -> {TEMP_TRANSCRIPT_PATH}
      [] stage = "Synthesize" -> {TEMP_TRANSLATED_PATH}
      [] stage = "Mux"        -> {TEMP_VIDEO_PATH, TEMP_DUBBED_AUDIO_PATH}

\* The file is missing or has no content.  (No stage writes the file of an
\* earlier stage, so an input is still what it was when the stage was called.)
MissingOrEmpty(p) == disk[p].kind \in {"absent", "empty"}

\* C11 as stated: an engine is called (ffmpeg started, a model or a network
\* service called) only by a stage all of whose input files exist and are
\* non-empty.
C11_NoEngineOnMissingOrEmptyInput ==
    \A k \in DOMAIN trace :
      trace[k].call => \A p \in InputPaths(trace[k].stage) : ~MissingOrEmpty(p)

\* C12 as stated: whenever a stage after the first has been started, the file
\* handed to it (the result of the stage before it) exists and is non-empty.
C12_HandedArtifactNonEmpty ==
    \A i \in DOMAIN started :
      i > 1 => ~MissingOrEmpty(locals[LocalOf(Stages[i - 1])])

\* C13 as stated: an engine adapter that returned a path has left a file
\* with content at that path.
C13_SuccessMeansNonEmptyFile ==
    \A k \in DOMAIN trace :
      trace[k].ret # None => disk[trace[k].ret].kind \notin {"absent", "empty"}

\* The file at the target path of attempt k was written in this call by the
\* engine of attempt k.
WrittenBy(k) ==
    LET f == disk[StagePath(trace[k].stage)]
    IN  f.fresh /\ f.by = trace[k].engine

\* C14 as stated: an engine adapter that returned failure has not changed
\* the file at its target path.
C14_FailureLeavesNoPartialFile ==
    \A k \in DOMAIN trace : trace[k].ret = None => ~WrittenBy(k)

\* C15 as stated: no stage call ends with an exception reaching
\* process_video.
C15_NoExceptionEscapes ==
    \A i \in DOMAIN returns : ~returns[i].raised

\* The attempts of the engines that run an external tool.
ToolAttempts == {k \in DOMAIN trace : trace[k].engine \in {"ffmpeg", "yt-dlp"}}

\* C16: an external-tool engine returns a path only if its child process
\* exited with code 0 and the output file exists; after a non-zero exit
\* code, or with no file at the output path, it returns None.
C16_ToolSuccessNeedsExitZeroAndFile ==
    \A k \in ToolAttempts :
      /\ trace[k].ret # None =>
           /\ trace[k].exit = "zero"
           /\ trace[k].ret = StagePath(trace[k].stage)
           /\ Exists(disk, trace[k].ret)
      /\ trace[k].exit # "zero" => trace[k].ret = None
      /\ ~Exists(disk, StagePath(trace[k].stage)) => trace[k].ret = None

C16_Witness ==
    /\ \E k \in ToolAttempts : trace[k].engine = "yt-dlp" /\ trace[k].ret # None
    /\ \E k \in ToolAttempts :
         /\ trace[k].stage = "Extract"
         /\ trace[k].exit = "nonzero"
         /\ Exists(disk, TEMP_AUDIO_PATH)
         /\ trace[k].ret = None

\* The set of files a returned stage call was given.
ArgSet(i) == {returns[i].args[k] : k \in DOMAIN returns[i].args}

\* A step that changes a file changes only the file of the stage in progress
\* (or is the end of the call, after which the files are leftovers): every
\* path is written by one stage only, and not after that stage has returned.
WrittenOnlyByItsStage ==
    \A p \in Paths :
      disk'[p] # disk[p] =>
        \/ pc' = "idle"
        \/ /\ started # << >>
           /\ pc \notin {"returned", "exited"}
           /\ p = StagePath(Last(started))

\* C17 as stated: every path is written by one stage only and never after
\* that stage has completed, and every stage call reads exactly the file of
\* the stage immediately before it.
C17_WriteOnceReadByNextOnly ==
    /\ [](\A i \in DOMAIN returns :
            ArgSet(i) = IF i = 1 THEN {} ELSE {StagePath(Stages[i - 1])})
    /\ [][WrittenOnlyByItsStage]_vars

\* C17 as amended: every path is written by one stage only and never after
\* that stage has completed; every stage call reads the file of the stage
\* immediately before it, and the merge also reads the downloaded video.
C17_WriteOnceReadByLaterStages ==
    /\ [](\A i \in DOMAIN returns :
            ArgSet(i) = CASE i = 1                -> {}
                          [] Stages[i] = "Mux"    -> {TEMP_VIDEO_PATH, StagePath(Stages[i - 1])}
                          [] OTHER                -> {StagePath(Stages[i - 1])})
    /\ [][WrittenOnlyByItsStage]_vars

C17_Witness ==
    /\ pc = "returned"
    /\ Len(returns) = Len(Stages)
    /\ returns[6].ret = OUTPUT_VIDEO_PATH
    /\ disk[OUTPUT_VIDEO_PATH] = File("full", "ffmpeg")
    /\ disk[TEMP_VIDEO_PATH] = File("full", "yt-dlp")

\* The positions at which an adapter waits for its child process.
WaitPoints == {"acquire_ytdlp_wait", "extract_wait", "mux_wait"}

\* C18: at most one child process is in flight, and only while its adapter
\* waits for it: whenever a stage or a candidate engine is about to start,
\* and when the call has returned, every child started before has been
\* waited for.
C18_OneEngineAtATime ==
    /\ Cardinality(inflight) <= 1
    /\ inflight # {} => pc \in WaitPoints
    /\ pc = "acquire_ytdlp_wait" => inflight = {"yt-dlp"}
    /\ pc \in {"extract_wait", "mux_wait"} => inflight = {"ffmpeg"}

C18_Witness ==
    /\ pc = "mux_wait"
    /\ inflight = {"ffmpeg"}
    /\ \E k \in DOMAIN trace : trace[k].engine = "yt-dlp" /\ trace[k].ret # None
    /\ \E k \in DOMAIN trace : trace[k].stage = "Extract" /\ trace[k].ret # None

\* C19 as stated (for the reference audio): when main is run with
\* voice_clone and a reference-audio path at which no file exists,
\* process_video does not start its first stage.
C19_MissingInputsRejectedBeforeStart ==
    ( /\ caller = "main"
      /\ cfg.tts_engine = "voice_clone"
      /\ ~RefExists(cfg.reference_audio) ) =>
      started = << >>

\* The lang_mapping table an engine call took its language code from.
LangTable(name) ==
    CASE name = "xtts"          -> xtts_lang_mapping
      [] name = "gtts_fallback" -> fallback_lang_mapping
      [] name = "gtts"          -> gtts_lang_mapping
      [] name = "yourtts"       -> yourtts_lang_mapping

\* The engine calls that were given a language code from a table.
LangCalls == {k \in DOMAIN trace : trace[k].table # "none"}

\* C20: with target language "zh" the XTTS variant calls its model with
\* exactly "zh-cn", and in every variant a target language that is a key of
\* the variant's table reaches the model as the table's value for it.
C20_TableCodeReachesModel ==
    \A k \in LangCalls :
      /\ (trace[k].table = "xtts" /\ cfg.target_lang = LANG_ZH) =>
           trace[k].lang = LANG_ZH_CN_LOWER
      /\ cfg.target_lang \in DOMAIN LangTable(trace[k].table) =>
           trace[k].lang = LangTable(trace[k].table)[cfg.target_lang]

C20_Witness ==
    /\ pc = "spoken"
    /\ cfg.target_lang = LANG_ZH
    /\ ret = TEMP_DUBBED_AUDIO_PATH
    /\ \E k \in LangCalls :
         /\ trace[k].table = "xtts"
         /\ trace[k].wrote
         /\ trace[k].lang = <<"z", "h", "-", "c", "n">>

\* C21 as stated: an engine call made for a target language that is not a
\* key of the variant's table is made with the default code "en", and the
\* variant has logged a warning about it.
C21_UnmappedCodeDefaultsWithWarning ==
    \A k \in LangCalls :
      cfg.target_lang \notin DOMAIN LangTable(trace[k].table) =>
        /\ trace[k].lang = LANG_EN
        /\ \E i \in DOMAIN log : log[i] = LangWarning

\* C30 as stated: a gTTS call, whichever of the two variants makes it, is
\* made with the code generate_speech_gtts computes for the target language,
\* which is also the code clone_voice_fallback computes for it.
C30_GttsVariantsAgree ==
    \A k \in LangCalls :
      trace[k].table \in {"gtts", "gtts_fallback"} =>
        /\ trace[k].lang = tts_lang(gtts_lang_mapping, cfg.target_lang)
        /\ trace[k].lang = get_lower(fallback_lang_mapping, cfg.target_lang)

\* The durations of the two inputs of the merge.
VideoDuration == disk[TEMP_VIDEO_PATH].media[1].video

AudioDuration == disk[TEMP_DUBBED_AUDIO_PATH].media[1].audio

\* The containers in the merged file.
Output == disk[OUTPUT_VIDEO_PATH].media

C23_AudioNoLongerThanVideo ==
    disk[OUTPUT_VIDEO_PATH].kind = "full" =>
      \A i \in DOMAIN Output : Output[i].audio <= VideoDuration

\* Each of the two engines has merged an audio longer than the video, and
\* the audio track is as long as the video.
C23_Witness ==
    /\ AudioDuration > VideoDuration
    /\ Len(trace) = 2
    /\ {trace[1].engine, trace[2].engine} = {"ffmpeg", "moviepy"}
    /\ trace[1].wrote /\ trace[2].wrote
    /\ Output # << >> /\ Output[1].audio = VideoDuration

\* C24 as stated: the merged file has the duration of the source video,
\* whatever the length of the audio.
C24_VideoKeepsItsDuration ==
    disk[OUTPUT_VIDEO_PATH].kind = "full" =>
      \A i \in DOMAIN Output : Output[i].video = VideoDuration

\* C25 as stated: whenever process_video has returned None, the failure it
\* reported names the stage that was running.
C25_FailureNamesStage ==
    (Over /\ ret = None) => failure.stage = Last(started)

\* The log records of the call that say the second engine was started.
FallbackEvents(engine) == {k \in DOMAIN log : log[k] = FallbackRecord(engine)}

C28_ExceptionsBecomeNone ==
    /\ pc # "raised"
    /\ \A i \in DOMAIN returns :
         returns[i].raised => i = Len(returns) /\ failure.detail = "unexpected error"
    /\ failure.detail = "unexpected error" =>
         /\ pc \in {"returned", "exited"}
         /\ ret = None
         /\ \A k \in DOMAIN trace :
              StageIndex(trace[k].stage) <= StageIndex(Last(started))

\* extract_audio raised in its os.makedirs and process_video returned None.
C28_Witness ==
    /\ pc = "returned"
    /\ ret = None
    /\ returns # << >>
    /\ Last(returns).raised
    /\ Last(returns).stage = "Extract"

\* C29 as stated: the call of download_video_with_yt_dlp always comes to its
\* return, with the child reaped and None returned after a non-zero exit.
C29_YtDlpAlwaysReturns ==
    <>(/\ pc = "ytdlp_done"
       /\ child.state \in {"none", "reaped"}
       /\ (child.code = "nonzero" => ret = None))

====
